---- MODULE Spec2Model ----
(***************************************************************************)
(* A model of snowflake_perform_run_command_gist (run_command.cpp): the    *)
(* parent thread(s) of one process, the clone3 children, the kernel        *)
(* objects they share (descriptor tables, the error pipe, the pidfd, the   *)
(* process table entry of each child) and the scope_exit guards.           *)
(*                                                                         *)
(* Every system call of the source is one atomic step.  A call that blocks *)
(* is a step that is enabled only once it can return.                      *)
(***************************************************************************)
EXTENDS Integers, Sequences, FiniteSets, TLC

(***************************************************************************)
(* Bounds of the model.                                                    *)
(***************************************************************************)
\* descriptor numbers are 0 .. NumFds-1
NumFds == 10
\* the started program exits with a code in 0 .. MaxExitCode
MaxExitCode == 2
\* the largest error_buffer_len tried
MaxErrLen == 10

(***************************************************************************)
(* Numbers of the platform headers the source includes.                    *)
(***************************************************************************)
ENOENT == 2
EBADF == 9
EACCES == 13
SIGKILL == 9
SIGPIPE == 13
SIGTERM == 15

\* The threads that may call run_command (one call each).
Calls == {1, 2}

FdNums == 0 .. (NumFds - 1)

\* errno values an injected failure of open, write or execve may leave
ChildErrnos == {ENOENT, EACCES}

(***************************************************************************)
(* Descriptor tables.  An entry names the open file description it refers  *)
(* to (kind k, owning call c; c = 0 for the caller's own files) and holds  *)
(* the close-on-exec flag of the descriptor.                               *)
(***************************************************************************)
Closed == [k |-> "closed", c |-> 0, cx |-> FALSE]

File(kind, call, cloexec) == [k |-> kind, c |-> call, cx |-> cloexec]

IsOpenIn(t, n) == n \in FdNums /\ t[n].k # "closed"

FreeIn(t) == {n \in FdNums : t[n].k = "closed"}

Lowest(S) == CHOOSE n \in S : \A m \in S : n <= m

\* close(n) on table t; a number that is not open is EBADF and changes nothing
CloseFd(t, n) == IF n \in FdNums THEN [t EXCEPT ![n] = Closed] ELSE t

\* the description descriptor n refers to in table t (Closed when none)
Lookup(t, n) == IF n \in FdNums THEN t[n] ELSE Closed

\* execve closes every close-on-exec descriptor
AfterExec(t) == [n \in FdNums |-> IF t[n].cx THEN Closed ELSE t[n]]

AllClosed == [n \in FdNums |-> Closed]

(***************************************************************************)
(* The pre-exec error payload: errno as a little-endian int32, then the    *)
(* bytes of the tag, no terminator.                                        *)
(***************************************************************************)
Int32LE(e) ==
    << e % 256, (e \div 256) % 256, (e \div 65536) % 256, (e \div 16777216) % 256 >>

\* ASCII
TagBytes(tag) ==
    CASE tag = "open"   -> << 111, 112, 101, 110 >>
      [] tag = "write"  -> << 119, 114, 105, 116, 101 >>
      [] tag = "dup2"   -> << 100, 117, 112, 50 >>
      [] tag = "execve" -> << 101, 120, 101, 99, 118, 101 >>
      [] OTHER          -> << >>

Payload(e, tag) == Int32LE(e) \o TagBytes(tag)

Min(a, b) == IF a <= b THEN a ELSE b

\* the first n elements of s / s without them
Take(s, n) == SubSeq(s, 1, Min(n, Len(s)))
Drop(s, n) == SubSeq(s, Min(n, Len(s)) + 1, Len(s))

\* (a variant: the rest of the buffer is cleared)
OverwriteAndClear(buf, d) == [i \in 1 .. Len(buf) |-> IF i <= Len(d) THEN d[i] ELSE 0]

\* buf with its first Len(d) bytes replaced by d
Overwrite(buf, d) == [i \in 1 .. Len(buf) |-> IF i <= Len(d) THEN d[i] ELSE buf[i]]

\* what the caller left in error_buffer: no byte of any payload
Junk == 170
FreshBuffer(len) == [i \in 1 .. len |-> Junk]

(***************************************************************************)
(* Wait-status words.                                                      *)
(***************************************************************************)
W_EXITCODE(code) == (code % 256) * 256
W_SIGNALED(sig) == sig
WIFEXITED(w) == w % 128 = 0
WEXITSTATUS(w) == (w \div 256) % 256
WIFSIGNALED(w) == (w % 128) # 0 /\ (w % 128) # 127
WTERMSIG(w) == w % 128

(***************************************************************************)
(* scope_exit<F>: the guard holds its action in an optional; what each     *)
(* member does to "the optional is engaged".                               *)
(***************************************************************************)
\* (a variant: a guard whose action never runs)
GuardNeverFires(engaged) == FALSE

\* ~scope_exit(): if (f) (*f)();
GuardFires(engaged) == engaged

\* (a variant: skip() that leaves the guard armed)
AfterSkipStillEngaged(engaged) == engaged

\* skip(): f.reset();
AfterSkip(engaged) == FALSE

\* (a variant: run_now() without the f.reset())
AfterRunNowStillEngaged(engaged) == engaged

\* run_now(): this->~scope_exit(); f.reset();
AfterRunNow(engaged) == FALSE

VARIABLES
    sigchld,    \* the process's disposition of SIGCHLD: "SIG_DFL" or "SIG_IGN"
    faults,     \* the system calls the environment lets fail in this run
    active,     \* the calls that take place
    fds,        \* the descriptor table the parent's threads share
    req,        \* per call: the arguments log_file and errlen
    pc,         \* per call: where the calling thread is
    pipefd,     \* per call: int pipefd[2] (0-based index i is pipefd[c][i+1])
    pidfd,      \* per call: int pidfd
    pid,        \* per call: pid_t pid, as the parent sees it
    guard,      \* per call: which of the four guards are engaged
    nread,      \* per call: int nread
    poll_result,\* per call: int poll_result
    wstatus,    \* per call: the caller's wstatus
    errbuf,     \* per call: the caller's error buffer
    status,     \* per call: the status returned ("none" before the return)
    plog,       \* per call: the system calls the parent thread made, in order
    cpc,        \* per call: where the child process is
    cfds,       \* per call: the child's descriptor table
    cguard,     \* per call: the child's copy of the guards
    cerr,       \* per call: errnum and source inside send_error
    clog,       \* per call: the system calls the child made, in order
    proc,       \* per call: the child's process-table entry
    term,       \* per call: the wait-status word the child's end produced
    pipebuf,    \* per call: the bytes in the error pipe
    stray,      \* per call: error bytes the child wrote to a file that is not the pipe
    js,         \* the SekkaBackend handle and the run_js call in progress on it
    sg          \* one scope_exit guard and the member calls made on it

parentVars == << fds, pc, pipefd, pidfd, pid, guard, nread, poll_result, wstatus,
                 errbuf, status, plog >>
childVars == << cpc, cfds, cguard, cerr, clog, proc, term, pipebuf, stray >>
envVars == << sigchld, faults, active, req, js, sg >>
vars == << envVars, parentVars, childVars >>

NoGuards == [g0 |-> FALSE, g1 |-> FALSE, gp |-> FALSE, gc |-> FALSE]

\* an entry of plog or clog
Ev(op, kind, num) == [op |-> op, k |-> kind, n |-> num]


(***************************************************************************)
(* The state when the calls begin.  The caller may have any of fds 0, 1, 2 *)
(* open or closed; its log files are fds 3 (call 1) and 4 (call 2).        *)
(* log_file is a descriptor that is open in the caller.                    *)
(***************************************************************************)
ErrLens == {0, 3, 4, 8, MaxErrLen}

\* the system calls whose failure is up to the environment
AllFaults == {"pipe2", "clone3", "read", "ppoll", "open", "write", "execve"}

StdFile(n) == File(CASE n = 0 -> "std0" [] n = 1 -> "std1" [] OTHER -> "std2", 0, FALSE)

CallerTable(std, calls) ==
    [n \in FdNums |->
        IF n \in std THEN StdFile(n)
        ELSE IF n = 3 /\ 1 \in calls THEN File("log", 1, FALSE)
        ELSE IF n = 4 /\ 2 \in calls THEN File("log", 2, FALSE)
        ELSE Closed]

IdleReq == [log_file |-> 3, errlen |-> 0]

\* a guard as its constructor leaves it: f holds the action, nothing has run;
\* `ops` lists the member calls made on it, each with whether the action ran
SgFresh == [engaged |-> TRUE, live |-> TRUE, ops |-> << >>, runs |-> 0]

\* a backend as sekka_backend_new leaves it: no V8 scope entered, no call in
\* progress; `done` lists the run_js calls made on it so far
JsIdle == [pc |-> "idle", scopes |-> << >>, trace |-> << >>, thrown |-> FALSE,
           ret |-> FALSE, done |-> << >>]

InitCommon ==
    /\ pc = [c \in Calls |-> IF c \in active THEN "start" ELSE "idle"]
    /\ pipefd = [c \in Calls |-> << -1, -1 >>]
    /\ pidfd = [c \in Calls |-> -1]
    /\ pid = [c \in Calls |-> -1]
    /\ guard = [c \in Calls |-> NoGuards]
    /\ nread = [c \in Calls |-> 0]
    /\ poll_result = [c \in Calls |-> 0]
    /\ wstatus = [c \in Calls |-> -1]
    /\ errbuf = [c \in Calls |-> FreshBuffer(req[c].errlen)]
    /\ status = [c \in Calls |-> "none"]
    /\ plog = [c \in Calls |-> << >>]
    /\ cpc = [c \in Calls |-> "none"]
    /\ cfds = [c \in Calls |-> AllClosed]
    /\ cguard = [c \in Calls |-> NoGuards]
    /\ cerr = [c \in Calls |-> [errnum |-> 0, source |-> ""]]
    /\ clog = [c \in Calls |-> << >>]
    /\ proc = [c \in Calls |-> "none"]
    /\ term = [c \in Calls |-> -1]
    /\ pipebuf = [c \in Calls |-> << >>]
    /\ stray = [c \in Calls |-> << >>]
    /\ js = JsIdle
    /\ sg = SgFresh

\* one call, every layout of the caller's fds 0..2, every open log_file
Init ==
    /\ sigchld \in {"SIG_DFL", "SIG_IGN"}
    /\ faults = AllFaults
    /\ active = {1}
    /\ \E std \in SUBSET {0, 1, 2} :
        /\ fds = CallerTable(std, {1})
        /\ \E lf \in std \cup {3}, len \in ErrLens :
            req = [c \in Calls |-> IF c = 1 THEN [log_file |-> lf, errlen |-> len]
                                   ELSE IdleReq]
    /\ InitCommon

(***************************************************************************)
(* Kernel state read by several system calls.                              *)
(***************************************************************************)
\* some descriptor of some process refers to the end `kind` of call d's pipe
HeldBy(t, kind, d) == \E n \in FdNums : t[n].k = kind /\ t[n].c = d

Held(kind, d) == HeldBy(fds, kind, d) \/ \E c \in Calls : HeldBy(cfds[c], kind, d)

Writers(d) == Held("pipe_w", d)
Readers(d) == Held("pipe_r", d)

\* the child has ended: its pidfd polls readable and waitpid no longer blocks
Terminated(c) == proc[c] \in {"zombie", "reaped"}

\* what is left of a child that ends: a zombie, or nothing when the parent
\* ignores SIGCHLD (the kernel reaps it, and waitpid fails with ECHILD)
AfterDeath == IF sigchld = "SIG_IGN" THEN "reaped" ELSE "zombie"

\* the child of call c ends with wait-status word w
Die(c, w) ==
    /\ proc' = [proc EXCEPT ![c] = AfterDeath]
    /\ term' = [term EXCEPT ![c] = w]
    /\ cfds' = [cfds EXCEPT ![c] = AllClosed]
    /\ cpc' = [cpc EXCEPT ![c] = "dead"]


(***************************************************************************)
(* The child process: the branch pid == 0.  It runs on a copy of the       *)
(* parent's memory (pipefd, log_file, the guards) and of its descriptor    *)
(* table, both taken by clone3.                                            *)
(***************************************************************************)
ChildAt(c, where) == c \in active /\ proc[c] = "alive" /\ cpc[c] = where

ChildGoes(c, where, ev) ==
    /\ cpc' = [cpc EXCEPT ![c] = where]
    /\ clog' = [clog EXCEPT ![c] = Append(@, ev)]

\* pipefd0_guard.run_now() in the child: close(pipefd[0])
ChildCloseRead(c) ==
    /\ ChildAt(c, "c_close_r")
    /\ cfds' = [cfds EXCEPT ![c] =
                    IF GuardFires(cguard[c].g0) THEN CloseFd(@, pipefd[c][1]) ELSE @]
    /\ cguard' = [cguard EXCEPT ![c].g0 = AfterRunNow(@)]
    /\ ChildGoes(c, "c_wf1", Ev("close", Lookup(cfds[c], pipefd[c][1]).k, pipefd[c][1]))
    /\ UNCHANGED << envVars, parentVars, cerr, proc, term, pipebuf, stray >>

\* send_error(source), its first line: errnum = errno
SendError(c, e, source, ev) ==
    /\ cerr' = [cerr EXCEPT ![c] = [errnum |-> e, source |-> source]]
    /\ ChildGoes(c, "c_err_w1", ev)

\* (a variant: uid_map is left out)
WriteFileNextSkipsUidMap(i) == CASE i = 1 -> "c_wf3" [] i = 2 -> "c_wf3" [] OTHER -> "c_close0"

WriteFileNext(i) == CASE i = 1 -> "c_wf2" [] i = 2 -> "c_wf3" [] OTHER -> "c_close0"

\* write_file(pathname, ptr, len), the i-th of the three: open, write, close.
\* The descriptor it opens is closed again before the step ends (or the
\* child is on its way to _exit).
ChildWriteFile(c, i) ==
    /\ ChildAt(c, CASE i = 1 -> "c_wf1" [] i = 2 -> "c_wf2" [] OTHER -> "c_wf3")
    /\ \/ /\ ChildGoes(c, WriteFileNext(i), Ev("write_file", "ok", i))
          /\ UNCHANGED cerr
       \/ /\ "open" \in faults
          /\ \E e \in ChildErrnos : SendError(c, e, "open", Ev("write_file", "open", i))
       \/ /\ "write" \in faults
          /\ \E e \in ChildErrnos : SendError(c, e, "write", Ev("write_file", "write", i))
    /\ UNCHANGED << envVars, parentVars, cfds, cguard, proc, term, pipebuf, stray >>

\* close(0)
ChildCloseStdin(c) ==
    /\ ChildAt(c, "c_close0")
    /\ cfds' = [cfds EXCEPT ![c] = CloseFd(@, 0)]
    /\ ChildGoes(c, "c_dup2_1", Ev("close", cfds[c][0].k, 0))
    /\ UNCHANGED << envVars, parentVars, cguard, cerr, proc, term, pipebuf, stray >>

\* the table after dup2(old, new) succeeded: new refers to old's description,
\* without close-on-exec; dup2(n, n) changes nothing
Dup2Table(t, old, new) ==
    IF old = new THEN t ELSE [t EXCEPT ![new] = [t[old] EXCEPT !.cx = FALSE]]

\* (a variant: both calls are dup2(log_file, 2))
Dup2TargetAlwaysStderr(n) == 2

\* the descriptor the n-th dup2 makes: dup2(log_file, 1), dup2(log_file, 2)
Dup2Target(n) == n

\* if (dup2(log_file, n) == -1) send_error("dup2"), for n = 1 and n = 2
ChildDup2(c, n) ==
    /\ ChildAt(c, IF n = 1 THEN "c_dup2_1" ELSE "c_dup2_2")
    /\ IF IsOpenIn(cfds[c], req[c].log_file)
       THEN /\ cfds' = [cfds EXCEPT ![c] = Dup2Table(@, req[c].log_file, Dup2Target(n))]
            /\ ChildGoes(c, IF n = 1 THEN "c_dup2_2" ELSE "c_execve", Ev("dup2", "ok", n))
            /\ UNCHANGED cerr
       ELSE /\ SendError(c, EBADF, "dup2", Ev("dup2", "fail", n))
            /\ UNCHANGED cfds
    /\ UNCHANGED << envVars, parentVars, cguard, proc, term, pipebuf, stray >>

\* execve(...); send_error("execve");
ChildExecve(c) ==
    /\ ChildAt(c, "c_execve")
    /\ \/ /\ cfds' = [cfds EXCEPT ![c] = AfterExec(@)]
          /\ ChildGoes(c, "running", Ev("execve", "ok", 0))
          /\ UNCHANGED cerr
       \/ /\ "execve" \in faults
          /\ \E e \in ChildErrnos : SendError(c, e, "execve", Ev("execve", "fail", 0))
          /\ UNCHANGED cfds
    /\ UNCHANGED << envVars, parentVars, cguard, proc, term, pipebuf, stray >>

\* what a write(pipefd[1], data, n) of the child does, by the description the
\* number refers to in the child: "pipe" (bytes queued), "epipe" (a pipe no
\* one can read), "file" (the bytes land in a caller's file), "fail"
WriteTarget(f) ==
    CASE f.k = "pipe_w" /\ Readers(f.c)   -> "pipe"
      [] f.k = "pipe_w" /\ ~Readers(f.c)  -> "epipe"
      [] f.k \in {"std0", "std1", "std2", "log"} -> "file"
      [] OTHER -> "fail"

\* one write of send_error; the result of write is not looked at
ChildWrite(c, data, next, name) ==
    LET f == Lookup(cfds[c], pipefd[c][2])
        w == WriteTarget(f)
    IN  \/ /\ pipebuf' = IF w = "pipe" THEN [pipebuf EXCEPT ![f.c] = @ \o data]
                                        ELSE pipebuf
           /\ stray' = [stray EXCEPT ![c] = IF w = "file" THEN @ \o data ELSE @]
           /\ ChildGoes(c, next, Ev(name, w, Len(data)))
           /\ UNCHANGED << cfds, proc, term >>
        \/ \* SIGPIPE with its default disposition ends the child
           /\ w = "epipe"
           /\ Die(c, W_SIGNALED(SIGPIPE))
           /\ clog' = [clog EXCEPT ![c] = Append(@, Ev(name, "sigpipe", Len(data)))]
           /\ UNCHANGED << pipebuf, stray >>

\* write(pipefd[1], &errnum, sizeof(errnum));
ChildSendErrno(c) ==
    /\ ChildAt(c, "c_err_w1")
    /\ ChildWrite(c, Int32LE(cerr[c].errnum), "c_err_w2", "write_errno")
    /\ UNCHANGED << envVars, parentVars, cguard, cerr >>

\* (a variant: send_error without the _exit: it returns, and the child goes
\* on past the end of the branch)
SendErrorReturns == "c_left"

\* send_error ends in _exit(1)
SendErrorEnds == "c_exit"

\* write(pipefd[1], source, std::strlen(source));
ChildSendSource(c) ==
    /\ ChildAt(c, "c_err_w2")
    /\ ChildWrite(c, TagBytes(cerr[c].source), SendErrorEnds, "write_source")
    /\ UNCHANGED << envVars, parentVars, cguard, cerr >>

\* _exit(1);
ChildExit(c) ==
    /\ ChildAt(c, "c_exit")
    /\ Die(c, W_EXITCODE(1))
    /\ clog' = [clog EXCEPT ![c] = Append(@, Ev("_exit", "", 1))]
    /\ UNCHANGED << envVars, parentVars, cguard, cerr, pipebuf, stray >>

\* the started program ends by itself with some exit code (it may also never end)
ProgramExits(c) ==
    /\ ChildAt(c, "running")
    /\ \E code \in 0 .. MaxExitCode :
        /\ Die(c, W_EXITCODE(code))
        /\ clog' = [clog EXCEPT ![c] = Append(@, Ev("exit", "", code))]
    /\ UNCHANGED << envVars, parentVars, cguard, cerr, pipebuf, stray >>

ChildStep(c) ==
    \/ ChildCloseRead(c)
    \/ \E i \in 1 .. 3 : ChildWriteFile(c, i)
    \/ ChildCloseStdin(c)
    \/ \E n \in 1 .. 2 : ChildDup2(c, n)
    \/ ChildExecve(c)
    \/ ChildSendErrno(c)
    \/ ChildSendSource(c)
    \/ ChildExit(c)
    \/ ProgramExits(c)



(***************************************************************************)
(* The parent: the thread that called run_command.                         *)
(***************************************************************************)
ParentAt(c, where) == c \in active /\ pc[c] = where

Logged(c, ev) == plog' = [plog EXCEPT ![c] = Append(@, ev)]

\* `return st;` The guards in scope are destroyed in reverse order of their
\* construction: child_guard first, then pidfd_guard, pipefd1_guard,
\* pipefd0_guard.  nextguard is the state of `guard` at the return.
\* (a variant: no child_guard; nothing kills or reaps the child at a return)
FirstUnwindNeverKills(g) == "g_fds"

\* (a variant: child_guard is destroyed, and acts, at every return)
FirstUnwindAlwaysKills(g) == "g_kill"

FirstUnwind(g) == IF GuardFires(g.gc) THEN "g_kill" ELSE "g_fds"

Return(c, st, nextguard) ==
    /\ status' = [status EXCEPT ![c] = st]
    /\ pc' = [pc EXCEPT ![c] = FirstUnwind(nextguard)]

\* (a variant: pipe2(pipefd, 0))
PipeWithoutCloexec == FALSE

\* the flags argument of pipe2: is O_CLOEXEC set?
PipeCloexec == TRUE

\* pipe2(pipefd, O_CLOEXEC), and the two guards of its descriptors
PipeEnds(t) == LET r == Lowest(FreeIn(t)) IN << r, Lowest(FreeIn(t) \ {r}) >>

Pipe2(c) ==
    /\ ParentAt(c, "start")
    /\ \/ \* pipe2 fails: return status::failure_pipe2, no guard exists yet
          /\ "pipe2" \in faults
          /\ status' = [status EXCEPT ![c] = "failure_pipe2"]
          /\ pc' = [pc EXCEPT ![c] = "returned"]
          /\ Logged(c, Ev("pipe2", "fail", -1))
          /\ UNCHANGED << fds, pipefd, guard >>
       \/ /\ Cardinality(FreeIn(fds)) >= 2
          /\ LET e == PipeEnds(fds)
             IN  /\ fds' = [fds EXCEPT ![e[1]] = File("pipe_r", c, PipeCloexec),
                                       ![e[2]] = File("pipe_w", c, PipeCloexec)]
                 /\ pipefd' = [pipefd EXCEPT ![c] = e]
          /\ guard' = [guard EXCEPT ![c].g0 = TRUE, ![c].g1 = TRUE]
          /\ pc' = [pc EXCEPT ![c] = "clone"]
          /\ Logged(c, Ev("pipe2", "ok", 0))
          /\ UNCHANGED status
    /\ UNCHANGED << envVars, childVars, pidfd, pid, nread, poll_result, wstatus, errbuf >>

\* the pid clone3 gives the child of call c (no pid is used twice)
PidOf(c) == 100 + c

\* syscall(SYS_clone3, ...) with CLONE_PIDFD; in the parent, pidfd_guard and
\* child_guard are constructed right after it
Clone3(c) ==
    /\ ParentAt(c, "clone")
    /\ \/ \* clone3 fails
          /\ "clone3" \in faults
          /\ pid' = [pid EXCEPT ![c] = -1]
          /\ Return(c, "failure_clone3", guard[c])
          /\ Logged(c, Ev("clone3", "fail", -1))
          /\ UNCHANGED << fds, pidfd, guard, cpc, cfds, cguard, proc >>
       \/ /\ FreeIn(fds) # {}
          /\ LET n == Lowest(FreeIn(fds))
             IN  /\ fds' = [fds EXCEPT ![n] = File("pidfd", c, TRUE)]
                 /\ pidfd' = [pidfd EXCEPT ![c] = n]
          /\ pid' = [pid EXCEPT ![c] = PidOf(c)]
          /\ guard' = [guard EXCEPT ![c].gp = TRUE, ![c].gc = TRUE]
          /\ proc' = [proc EXCEPT ![c] = "alive"]
          /\ cfds' = [cfds EXCEPT ![c] = fds]
          /\ cguard' = [cguard EXCEPT ![c] = [guard[c] EXCEPT !.gp = TRUE]]
          /\ cpc' = [cpc EXCEPT ![c] = "c_close_r"]
          /\ pc' = [pc EXCEPT ![c] = "close_w"]
          /\ Logged(c, Ev("clone3", "ok", PidOf(c)))
          /\ UNCHANGED status
    /\ UNCHANGED << envVars, pipefd, nread, poll_result, wstatus, errbuf,
                    cerr, clog, term, pipebuf, stray >>

\* pipefd1_guard.run_now(): close the write end of the pipe
CloseWriteEnd(c) ==
    /\ ParentAt(c, "close_w")
    /\ IF GuardFires(guard[c].g1)
       THEN /\ fds' = CloseFd(fds, pipefd[c][2])
            /\ Logged(c, Ev("close", Lookup(fds, pipefd[c][2]).k, Lookup(fds, pipefd[c][2]).c))
       ELSE UNCHANGED << fds, plog >>
    /\ guard' = [guard EXCEPT ![c].g1 = AfterRunNow(@)]
    /\ pc' = [pc EXCEPT ![c] = "read"]
    /\ UNCHANGED << envVars, childVars, pipefd, pidfd, pid, nread, poll_result,
                    wstatus, errbuf, status >>

\* what read(fd, buf, len) returns on a pipe holding `queued` bytes:
\* -2 stands for "blocks"
ReadCount(len, queued, writers) ==
    IF len = 0 THEN 0
    ELSE IF queued > 0 THEN Min(len, queued)
    ELSE IF writers THEN -2
    ELSE 0

\* the description pipefd[0] refers to in the parent
ReadEnd(c) == Lookup(fds, pipefd[c][1])

\* int nread = read(pipefd[0], errbuf, errlen), when read fails (-1):
\* if (nread == -1) return status::failure_read;
ReadFails(c) ==
    /\ ParentAt(c, "read")
    /\ "read" \in faults
    /\ nread' = [nread EXCEPT ![c] = -1]
    /\ Return(c, "failure_read", guard[c])
    /\ Logged(c, Ev("read", "fail", -1))
    /\ UNCHANGED << envVars, childVars, fds, pipefd, pidfd, pid, guard, poll_result,
                    wstatus, errbuf >>

\* int nread = read(pipefd[0], errbuf, errlen), when read returns a count:
\* if (nread != 0) return status::failure_pre_execve;
ReadReturns(c) ==
    /\ ParentAt(c, "read")
    /\ ReadEnd(c).k = "pipe_r"
    /\ LET d == ReadEnd(c).c
           n == ReadCount(req[c].errlen, Len(pipebuf[d]), Writers(d))
       IN  /\ n >= 0
           /\ nread' = [nread EXCEPT ![c] = n]
           /\ errbuf' = [errbuf EXCEPT ![c] = Overwrite(@, Take(pipebuf[d], n))]
           /\ pipebuf' = [pipebuf EXCEPT ![d] = Drop(@, n)]
           /\ Logged(c, Ev("read", IF Writers(d) THEN "open" ELSE "eof", n))
           /\ IF n # 0
              THEN Return(c, "failure_pre_execve", guard[c])
              ELSE /\ pc' = [pc EXCEPT ![c] = "close_r"]
                   /\ UNCHANGED status
    /\ UNCHANGED << envVars, fds, pipefd, pidfd, pid, guard, poll_result, wstatus,
                    cpc, cfds, cguard, cerr, clog, proc, term, stray >>

\* pipefd0_guard.run_now(): no longer need the read end of the pipe
CloseReadEnd(c) ==
    /\ ParentAt(c, "close_r")
    /\ IF GuardFires(guard[c].g0)
       THEN /\ fds' = CloseFd(fds, pipefd[c][1])
            /\ Logged(c, Ev("close", Lookup(fds, pipefd[c][1]).k, Lookup(fds, pipefd[c][1]).c))
       ELSE UNCHANGED << fds, plog >>
    /\ guard' = [guard EXCEPT ![c].g0 = AfterRunNow(@)]
    /\ pc' = [pc EXCEPT ![c] = "ppoll"]
    /\ UNCHANGED << envVars, childVars, pipefd, pidfd, pid, nread, poll_result,
                    wstatus, errbuf, status >>

\* POLLIN on descriptor n: a pidfd is readable once its process has ended;
\* a number that is not open is reported at once (POLLNVAL)
PollReady(n) ==
    LET f == Lookup(fds, n)
    IN  \/ f.k = "pidfd" /\ Terminated(f.c)
        \/ f.k = "closed"

\* int poll_result = ppoll(&poll_fd, 1, &timeout, nullptr), when ppoll fails:
\* if (poll_result == -1) return status::failure_ppoll;
PpollFails(c) ==
    /\ ParentAt(c, "ppoll")
    /\ "ppoll" \in faults
    /\ poll_result' = [poll_result EXCEPT ![c] = -1]
    /\ Return(c, "failure_ppoll", guard[c])
    /\ Logged(c, Ev("ppoll", "fail", -1))
    /\ UNCHANGED << envVars, childVars, fds, pipefd, pidfd, pid, guard, nread,
                    wstatus, errbuf >>

\* ppoll returns 0 (the timeout expired, the pidfd is not readable) or 1:
\* if (poll_result == 0) return status::failure_timeout;
PpollReturns(c) ==
    /\ ParentAt(c, "ppoll")
    /\ IF PollReady(pidfd[c])
       THEN /\ poll_result' = [poll_result EXCEPT ![c] = 1]
            /\ pc' = [pc EXCEPT ![c] = "waitpid"]
            /\ Logged(c, Ev("ppoll", "ready", 1))
            /\ UNCHANGED status
       ELSE /\ poll_result' = [poll_result EXCEPT ![c] = 0]
            /\ Return(c, "failure_timeout", guard[c])
            /\ Logged(c, Ev("ppoll", "timeout", 0))
    /\ UNCHANGED << envVars, childVars, fds, pipefd, pidfd, pid, guard, nread,
                    wstatus, errbuf >>

\* (a variant: waitpid(pid, nullptr, 0), as in child_guard: nothing is stored)
WaitStoresNothing(c) == wstatus[c]

\* waitpid(pid, &wstatus, 0) reaping the child: the word stored in wstatus
WaitStores(c) == term[c]

\* if (waitpid(pid, &wstatus, 0) != pid) return failure_waitpid;
\* child_guard.skip(); return child_terminated;
\* waitpid blocks until the child has ended; it reaps a zombie and fails
\* with ECHILD when the pid is no child of the process to wait for.
Waitpid(c) ==
    /\ ParentAt(c, "waitpid")
    /\ Terminated(c)
    /\ IF proc[c] = "zombie"
       THEN /\ proc' = [proc EXCEPT ![c] = "reaped"]
            /\ wstatus' = [wstatus EXCEPT ![c] = WaitStores(c)]
            /\ guard' = [guard EXCEPT ![c].gc = AfterSkip(@)]
            /\ Return(c, "child_terminated", [guard[c] EXCEPT !.gc = AfterSkip(@)])
            /\ Logged(c, Ev("waitpid", "reaped", pid[c]))
       ELSE /\ Return(c, "failure_waitpid", guard[c])
            /\ Logged(c, Ev("waitpid", "echild", -1))
            /\ UNCHANGED << proc, wstatus, guard >>
    /\ UNCHANGED << envVars, fds, pipefd, pidfd, pid, nread, poll_result, errbuf,
                    cpc, cfds, cguard, cerr, clog, term, pipebuf, stray >>


(***************************************************************************)
(* Leaving the function: the destructors of the guards.                    *)
(***************************************************************************)
\* (a variant: a polite kill, kill(pid, SIGTERM))
CleanupSignalTerm == SIGTERM

\* the signal child_guard sends
CleanupSignal == SIGKILL

\* ~child_guard, first line: kill(pid, SIGKILL).  The signal ends a live
\* child; a zombie is left as it is; no such process is ESRCH.
GuardKill(c) ==
    /\ ParentAt(c, "g_kill")
    /\ IF proc[c] = "alive"
       THEN Die(c, W_SIGNALED(CleanupSignal))
       ELSE UNCHANGED << proc, term, cfds, cpc >>
    /\ Logged(c, Ev("kill", proc[c], CleanupSignal))
    /\ pc' = [pc EXCEPT ![c] = "g_wait"]
    /\ UNCHANGED << envVars, fds, pipefd, pidfd, pid, guard, nread, poll_result,
                    wstatus, errbuf, status, cguard, cerr, clog, pipebuf, stray >>

\* ~child_guard, second line: waitpid(pid, nullptr, 0), result not looked at
GuardWait(c) ==
    /\ ParentAt(c, "g_wait")
    /\ Terminated(c)
    /\ proc' = [proc EXCEPT ![c] = "reaped"]
    /\ Logged(c, Ev("guard_waitpid", IF proc[c] = "zombie" THEN "reaped" ELSE "echild", pid[c]))
    /\ pc' = [pc EXCEPT ![c] = "g_fds"]
    /\ UNCHANGED << envVars, fds, pipefd, pidfd, pid, guard, nread, poll_result,
                    wstatus, errbuf, status, cpc, cfds, cguard, cerr, clog, term,
                    pipebuf, stray >>

\* one guard's destructor closing descriptor n: the table and the log after it
GuardClose(tl, engaged, n) ==
    IF GuardFires(engaged)
    THEN << CloseFd(tl[1], n),
            Append(tl[2], Ev("close", Lookup(tl[1], n).k, Lookup(tl[1], n).c)) >>
    ELSE tl

\* ~pidfd_guard, ~pipefd1_guard, ~pipefd0_guard, in this order
GuardFds(c) ==
    /\ ParentAt(c, "g_fds")
    /\ LET a == GuardClose(<< fds, plog[c] >>, guard[c].gp, pidfd[c])
           b == GuardClose(a, guard[c].g1, pipefd[c][2])
           d == GuardClose(b, guard[c].g0, pipefd[c][1])
       IN  /\ fds' = d[1]
           /\ plog' = [plog EXCEPT ![c] = d[2]]
    /\ guard' = [guard EXCEPT ![c] = NoGuards]
    /\ pc' = [pc EXCEPT ![c] = "returned"]
    /\ UNCHANGED << envVars, childVars, pipefd, pidfd, pid, nread, poll_result,
                    wstatus, errbuf, status >>

ParentStep(c) ==
    \/ Pipe2(c)
    \/ Clone3(c)
    \/ CloseWriteEnd(c)
    \/ ReadFails(c)
    \/ ReadReturns(c)
    \/ CloseReadEnd(c)
    \/ PpollFails(c)
    \/ PpollReturns(c)
    \/ Waitpid(c)
    \/ GuardKill(c)
    \/ GuardWait(c)
    \/ GuardFds(c)

Next == \E c \in Calls : ParentStep(c) \/ ChildStep(c)

Spec == Init /\ [][Next]_vars


(***************************************************************************)
(* Reading the logs.                                                       *)
(***************************************************************************)
\* the positions of log whose operation is op
At(log, op) == {i \in DOMAIN log : log[i].op = op}

\* the positions of log whose operation is op with outcome or object k
AtK(log, op, k) == {i \in DOMAIN log : log[i].op = op /\ log[i].k = k}

Did(log, op, k) == AtK(log, op, k) # {}

Returned(c) == c \in active /\ pc[c] = "returned"

\* clone3 succeeded in call c: a child exists (or existed)
Cloned(c) == Did(plog[c], "clone3", "ok")

\* no descriptor of the parent refers to a pipe end or pidfd of call c
NothingOpenOf(c) ==
    \A n \in FdNums : ~(fds[n].c = c /\ fds[n].k \in {"pipe_r", "pipe_w", "pidfd"})

(***************************************************************************)
(* C10.  A failure before a child exists leaves nothing behind.  A call    *)
(* that returns failure_pipe2 has made no system call but the failed       *)
(* pipe2: no clone3, no close.  A call that returns failure_clone3 has,    *)
(* after the failed clone3, closed the two pipe ends (each once) and       *)
(* nothing else, sent no signal and waited for no process; from the moment *)
(* the status is chosen no kill, waitpid or close of a pidfd is made.      *)
(***************************************************************************)
C10_NothingLeftBehind ==
    \A c \in active :
        /\ status[c] = "failure_pipe2" =>
              /\ plog[c] = << Ev("pipe2", "fail", -1) >>
              /\ proc[c] = "none"
              /\ NothingOpenOf(c)
        /\ status[c] = "failure_clone3" =>
              /\ proc[c] = "none"
              /\ At(plog[c], "kill") = {}
              /\ At(plog[c], "waitpid") = {}
              /\ At(plog[c], "guard_waitpid") = {}
              /\ AtK(plog[c], "close", "pidfd") = {}
              /\ Returned(c) =>
                    /\ plog[c] = << Ev("pipe2", "ok", 0), Ev("clone3", "fail", -1),
                                    Ev("close", "pipe_w", c), Ev("close", "pipe_r", c) >>
                    /\ NothingOpenOf(c)

\* a call has returned failure_clone3 with both pipe ends closed
C10_Witness ==
    \E c \in active :
        /\ Returned(c)
        /\ status[c] = "failure_clone3"
        /\ Cardinality(At(plog[c], "close")) = 2


(***************************************************************************)
(* C2.  In the parent every descriptor the call opened (the two pipe ends, *)
(* and the pidfd when clone3 succeeded) is closed exactly once before the  *)
(* call returns: every close the parent thread makes hits a descriptor of  *)
(* this call that is open at that moment (never a number already closed,   *)
(* never another file), no descriptor is closed twice, and at the return   *)
(* each one has been closed and none is left open.                         *)
(***************************************************************************)
\* the descriptors call c has opened so far, by kind
OpenedBy(c) ==
    (IF Did(plog[c], "pipe2", "ok") THEN {"pipe_r", "pipe_w"} ELSE {})
    \cup (IF Cloned(c) THEN {"pidfd"} ELSE {})

C2_ClosedExactlyOnce ==
    \A c \in active :
        /\ \A i \in At(plog[c], "close") :
              plog[c][i].k \in OpenedBy(c) /\ plog[c][i].n = c
        /\ \A kind \in {"pipe_r", "pipe_w", "pidfd"} :
              Cardinality(AtK(plog[c], "close", kind)) <= 1
        /\ Returned(c) =>
              /\ \A kind \in OpenedBy(c) : Cardinality(AtK(plog[c], "close", kind)) = 1
              /\ NothingOpenOf(c)

\* a call went all the way and returned with its three descriptors closed
C2_Witness ==
    \E c \in active :
        /\ Returned(c)
        /\ status[c] = "child_terminated"
        /\ OpenedBy(c) = {"pipe_r", "pipe_w", "pidfd"}
        /\ Cardinality(At(plog[c], "close")) = 3


(***************************************************************************)
(* C7.  If every pre-exec step succeeded, the program ended by itself with *)
(* exit code s before the timeout expired, and no system call of the       *)
(* parent failed, then the call returns child_terminated and wstatus is    *)
(* the wait-status word its waitpid(pid, &wstatus, 0) collected for that   *)
(* child: WIFEXITED(wstatus) and WEXITSTATUS(wstatus) = s.                 *)
(***************************************************************************)
\* no system call of the parent thread failed, and ppoll did not time out
ParentUnhindered(c) ==
    \A i \in DOMAIN plog[c] : plog[c][i].k \notin {"fail", "echild", "timeout"}

\* the program was started and ended by itself with exit code s
ProgramExited(c, s) ==
    /\ Did(clog[c], "execve", "ok")
    /\ clog[c][Len(clog[c])] = Ev("exit", "", s)

C7_ExitStatusReported ==
    \A c \in active : \A s \in 0 .. MaxExitCode :
        (Returned(c) /\ ParentUnhindered(c) /\ ProgramExited(c, s)) =>
            /\ status[c] = "child_terminated"
            /\ Did(plog[c], "waitpid", "reaped")
            /\ wstatus[c] = term[c]
            /\ WIFEXITED(wstatus[c])
            /\ WEXITSTATUS(wstatus[c]) = s

\* a program that exited with a non-zero code was reported
C7_Witness ==
    \E c \in active :
        /\ Returned(c)
        /\ ParentUnhindered(c)
        /\ ProgramExited(c, 2)
        /\ status[c] = "child_terminated"
        /\ WEXITSTATUS(wstatus[c]) = 2


(***************************************************************************)
(* C3.  If the parent's read on the error pipe returns 0, the child's      *)
(* execve has succeeded; so a call that ends child_terminated,             *)
(* failure_ppoll, failure_timeout or failure_waitpid had a child that      *)
(* started the requested program -- for every log_file, every errlen       *)
(* (0 included) and every numbering of the pipe's descriptors.             *)
(***************************************************************************)
\* the parent's read returned 0
ReadZero(c) == \E i \in At(plog[c], "read") : plog[c][i].k # "fail" /\ plog[c][i].n = 0

\* the child's execve succeeded: the requested program was started
Execed(c) == Did(clog[c], "execve", "ok")

C3_ReadZeroMeansExecve ==
    \A c \in active :
        /\ ReadZero(c) => Execed(c)
        /\ status[c] \in {"child_terminated", "failure_ppoll", "failure_timeout",
                          "failure_waitpid"} => Execed(c)

(***************************************************************************)
(* C4.  Whatever the interleaving of the child's send_error with the       *)
(* parent's read, what the read puts in errbuf is the whole payload (the   *)
(* four bytes of errno, then the whole tag) or nothing; never a part of    *)
(* it.  Stated for a buffer large enough for the payload, so that no read  *)
(* is cut short by the buffer.                                             *)
(***************************************************************************)
\* the payload send_error is sending, or has sent, in the child of call c
Sent(c) == Payload(cerr[c].errnum, cerr[c].source)

C4_PayloadWholeOrEmpty ==
    \A c \in active :
        (nread[c] > 0 /\ req[c].errlen >= Len(Sent(c))) =>
            Take(errbuf[c], nread[c]) = Sent(c)

(***************************************************************************)
(* C5.  Whenever a pre-exec step of the child failed with errno e (open or *)
(* write in write_file, dup2, execve), the call returns failure_pre_execve *)
(* and errbuf holds e as a 4-byte int32 followed by the tag of the failing *)
(* site.  Stated for a buffer large enough for the payload and a parent    *)
(* none of whose system calls failed.                                      *)
(***************************************************************************)
\* a pre-exec step failed in the child of call c: send_error was entered
PreExecFailed(c) == cerr[c].source # ""

C5_PreExecErrorReported ==
    \A c \in active :
        (/\ Returned(c)
         /\ PreExecFailed(c)
         /\ ParentUnhindered(c)
         /\ req[c].errlen >= Len(Sent(c))) =>
            /\ status[c] = "failure_pre_execve"
            /\ nread[c] = Len(Sent(c))
            /\ Take(errbuf[c], nread[c]) = Sent(c)


(***************************************************************************)
(* C1.  Once clone3 has succeeded, the child is reaped exactly once by the *)
(* time the call returns, whatever the status.  The claim as made: it is   *)
(* a waitpid of the call that reaps it, the normal one or the one of the   *)
(* SIGKILL + waitpid cleanup.                                              *)
(***************************************************************************)
\* the waitpid calls of call c that reaped the child / that failed (ECHILD)
Reaps(c) == AtK(plog[c], "waitpid", "reaped") \cup AtK(plog[c], "guard_waitpid", "reaped")
FailedWaits(c) == AtK(plog[c], "waitpid", "echild") \cup AtK(plog[c], "guard_waitpid", "echild")

C1_ReapedByWaitpid ==
    \A c \in active :
        (Returned(c) /\ Cloned(c)) =>
            /\ proc[c] = "reaped"
            /\ Cardinality(Reaps(c)) = 1

(***************************************************************************)
(* C1 as amended.  Once clone3 has succeeded, at the return the child has  *)
(* ended and is neither alive nor a zombie, on every return path, and it   *)
(* was reaped once: by the normal waitpid (exactly the child_terminated    *)
(* returns), by the waitpid of the cleanup, or by neither -- then by the   *)
(* kernel at the child's end, the process ignoring SIGCHLD, and every      *)
(* waitpid of the call has failed with ECHILD.  Every failure_waitpid      *)
(* return is of this last kind.  Before the return the cleanup's waitpid   *)
(* has returned on every path but child_terminated.                        *)
(***************************************************************************)
C1_NeverUnreapedAtReturn ==
    \A c \in active :
        (Returned(c) /\ Cloned(c)) =>
            /\ proc[c] = "reaped"
            /\ Cardinality(Reaps(c)) <= 1
            /\ Did(plog[c], "waitpid", "reaped") <=> status[c] = "child_terminated"
            /\ status[c] # "child_terminated" => At(plog[c], "guard_waitpid") # {}
            /\ Reaps(c) = {} => (sigchld = "SIG_IGN" /\ FailedWaits(c) # {})
            /\ status[c] = "failure_waitpid" => Reaps(c) = {}

\* a call whose read failed has killed its child and reaped it in the cleanup
C1_Witness ==
    \E c \in active :
        /\ Returned(c)
        /\ status[c] = "failure_read"
        /\ plog[c][Len(plog[c]) - 3] = Ev("kill", "alive", SIGKILL)
        /\ Did(plog[c], "guard_waitpid", "reaped")
        /\ proc[c] = "reaped"

(***************************************************************************)
(* C6.  If ppoll returns 0 (the program has not ended when the timeout     *)
(* expires) the call returns failure_timeout, and before it returns the    *)
(* child has been sent SIGKILL, no other signal, and after that a waitpid  *)
(* has reaped it: no process or zombie is left.                            *)
(***************************************************************************)
\* the signals the parent has sent are one SIGKILL, followed by the
\* cleanup's waitpid
KilledThenWaited(c) ==
    /\ Cardinality(At(plog[c], "kill")) = 1
    /\ Cardinality(At(plog[c], "guard_waitpid")) = 1
    /\ \A i \in At(plog[c], "kill") :
          /\ plog[c][i].n = SIGKILL
          /\ \A j \in At(plog[c], "guard_waitpid") : j = i + 1

TimedOut(c) == Did(plog[c], "ppoll", "timeout")

C6_TimeoutKillsAndWaitpidReaps ==
    \A c \in active :
        /\ TimedOut(c) => status[c] = "failure_timeout"
        /\ \A i \in At(plog[c], "kill") : plog[c][i].n = SIGKILL
        /\ (Returned(c) /\ TimedOut(c)) =>
              /\ KilledThenWaited(c)
              /\ Did(plog[c], "guard_waitpid", "reaped")
              /\ proc[c] = "reaped"

(***************************************************************************)
(* C6 as amended.  If ppoll returns 0 the call returns failure_timeout,    *)
(* and before it returns the child has been sent SIGKILL, no other signal, *)
(* and the cleanup's waitpid has then waited for its end: the waitpid      *)
(* reaps it, or -- the process ignoring SIGCHLD -- fails with ECHILD, the  *)
(* kernel having reaped the child.  No process or zombie is left.          *)
(***************************************************************************)
C6_TimeoutKillsAndReaps ==
    \A c \in active :
        /\ TimedOut(c) => status[c] = "failure_timeout"
        /\ \A i \in At(plog[c], "kill") : plog[c][i].n = SIGKILL
        /\ (Returned(c) /\ TimedOut(c)) =>
              /\ KilledThenWaited(c)
              /\ Did(plog[c], "guard_waitpid", "echild") => sigchld = "SIG_IGN"
              /\ proc[c] = "reaped"
              /\ At(plog[c], "waitpid") = {}

\* a program still running at the timeout was killed and reaped
C6_Witness ==
    \E c \in active :
        /\ Returned(c)
        /\ status[c] = "failure_timeout"
        /\ Did(plog[c], "kill", "alive")
        /\ term[c] = W_SIGNALED(SIGKILL)
        /\ Did(plog[c], "guard_waitpid", "reaped")


(***************************************************************************)
(* Scheduling.  A system call of the parent that can return does return;   *)
(* nothing makes a call fail (the failing outcomes are possible, never     *)
(* forced).  The child's pre-exec phase goes on until it ends in execve or *)
(* _exit.  Nothing is assumed of the started program: it may never end.    *)
(* The timeout is finite: a ppoll whose pidfd is not readable returns 0.   *)
(***************************************************************************)
ParentProgress(c) ==
    \/ Pipe2(c)
    \/ Clone3(c)
    \/ CloseWriteEnd(c)
    \/ ReadReturns(c)
    \/ CloseReadEnd(c)
    \/ PpollReturns(c)
    \/ Waitpid(c)
    \/ GuardKill(c)
    \/ GuardWait(c)
    \/ GuardFds(c)

ChildPreExec(c) ==
    \/ ChildCloseRead(c)
    \/ \E i \in 1 .. 3 : ChildWriteFile(c, i)
    \/ ChildCloseStdin(c)
    \/ \E n \in 1 .. 2 : ChildDup2(c, n)
    \/ ChildExecve(c)
    \/ ChildSendErrno(c)
    \/ ChildSendSource(c)
    \/ ChildExit(c)

Fairness == \A c \in Calls : WF_vars(ParentProgress(c)) /\ WF_vars(ChildPreExec(c))

FairSpec == Spec /\ Fairness

Statuses ==
    {"child_terminated", "failure_pipe2", "failure_clone3", "failure_read",
     "failure_pre_execve", "failure_ppoll", "failure_timeout", "failure_waitpid"}

(***************************************************************************)
(* C8.  Every call eventually returns one of the eight statuses, whatever  *)
(* the started program does (it may never exit), the timeout being finite  *)
(* and the child's pre-exec phase ending in execve or _exit.               *)
(***************************************************************************)
C8_EveryCallReturns ==
    <>(\A c \in active : Returned(c) /\ status[c] \in Statuses)

\* a call has returned although its program never ended by itself
C8_Witness ==
    \E c \in active :
        /\ Returned(c)
        /\ status[c] = "failure_timeout"
        /\ Execed(c)
        /\ At(clog[c], "exit") = {}


(***************************************************************************)
(* Two calls at once, on two threads of one process: one descriptor table, *)
(* log files 3 and 4, an error buffer each.  The caller has fds 0..2 all   *)
(* open or all closed; the environment lets execve fail, or read and ppoll.*)
(***************************************************************************)
InitConc ==
    /\ sigchld = "SIG_DFL"
    /\ faults \in {{"execve"}, {"read", "ppoll"}}
    /\ active = {1, 2}
    /\ \E std \in {{0, 1, 2}, {}} : fds = CallerTable(std, {1, 2})
    /\ req = [c \in Calls |-> [log_file |-> 2 + c, errlen |-> MaxErrLen]]
    /\ InitCommon

SpecConc == InitConc /\ [][Next]_vars

\* the caller's own files: what the descriptor table holds when no call runs
CallerFiles ==
    [n \in FdNums |-> IF fds[n].k \in {"std0", "std1", "std2", "log"} THEN fds[n]
                      ELSE Closed]

\* the numbers pipe2 gives a call that runs alone
AlonePipe == PipeEnds(CallerFiles)

\* the child of call c got as far as execve, and execve failed
ExecveFailed(c) == Did(clog[c], "execve", "fail")

\* Run alone, a call whose child fails in execve returns failure_pre_execve
\* exactly if dup2(log_file, 1) and dup2(log_file, 2) left the write end of
\* the pipe alone (errlen > 0, read did not fail).
AloneReportsExecve == AlonePipe[2] \notin {1, 2}

\* (holds under Spec: the law above is what one call does)
AloneLaw ==
    (Returned(1) /\ ExecveFailed(1) /\ req[1].errlen > 0 /\ status[1] # "failure_read")
        => (status[1] = "failure_pre_execve" <=> AloneReportsExecve)

(***************************************************************************)
(* C9.  Concurrent calls do not interfere: a call returns the status it    *)
(* would return when run alone.  For a call whose child fails in execve    *)
(* (errlen > 0, read not failing) that status is failure_pre_execve        *)
(* exactly if AloneReportsExecve; so it must be with another call running. *)
(***************************************************************************)
C9_SameStatusAsAlone ==
    \A c \in active :
        (Returned(c) /\ ExecveFailed(c) /\ req[c].errlen > 0
                     /\ status[c] # "failure_read")
            => (status[c] = "failure_pre_execve" <=> AloneReportsExecve)

\* no call closes a descriptor that is not its own pipe end or pidfd
C9_ClosesOnlyItsOwn ==
    \A c \in active : \A i \in At(plog[c], "close") :
        plog[c][i].k \in {"pipe_r", "pipe_w", "pidfd"} /\ plog[c][i].n = c

\* both calls have run side by side and returned, one with a failed execve
C9_Witness ==
    /\ Returned(1) /\ Returned(2)
    /\ ExecveFailed(2)
    /\ Cloned(1)
    /\ status[2] = "failure_pre_execve"
    /\ ~AloneReportsExecve


(***************************************************************************)
(* What a call hands back.  The function returns a status; of its          *)
(* parameters only `int& wstatus` is a place for a number, and errbuf is   *)
(* the caller's buffer.  nread is a local variable.                        *)
(***************************************************************************)
\* the integer the caller finds in its out-parameter after the return
HandedBack(c) == wstatus[c]

(***************************************************************************)
(* C11.  When a call returns failure_pre_execve, the number of bytes its   *)
(* read put in errbuf is handed back to the caller along with the status.  *)
(***************************************************************************)
C11_ByteCountReported ==
    \A c \in active :
        (Returned(c) /\ status[c] = "failure_pre_execve") => HandedBack(c) = nread[c]

\* a call has returned failure_pre_execve having read the ten bytes of an
\* execve error
C11_Witness ==
    \E c \in active :
        /\ Returned(c)
        /\ status[c] = "failure_pre_execve"
        /\ nread[c] = Len(Payload(ENOENT, "execve"))
        /\ Take(errbuf[c], nread[c]) = Payload(ENOENT, "execve")


(***************************************************************************)
(* The script backend (backend.cpp): sekka_backend_run_js on one handle.   *)
(* A V8 call yields a value ("ok"), an empty Maybe ("empty"), or a C++     *)
(* exception leaves it ("throw").                                          *)
(***************************************************************************)
MaxRuns == 3

JsOutcomes == {"ok", "empty", "throw"}

JsVars == << sigchld, faults, active, req, sg, parentVars, childVars >>

JsAt(where) == js.pc = where

\* sekka_backend_run_js: try { return backend->run_js(js_ptr, js_len); }
JsCall ==
    /\ JsAt("idle")
    /\ Len(js.done) < MaxRuns
    /\ js' = [js EXCEPT !.pc = "enter", !.trace = << >>, !.thrown = FALSE, !.ret = FALSE]
    /\ UNCHANGED JsVars

\* run_js: isolate_scope, handle_scope, context_scope are constructed
JsEnter ==
    /\ JsAt("enter")
    /\ js' = [js EXCEPT !.pc = "wrap", !.scopes = @ \o << "isolate", "handle", "context" >>]
    /\ UNCHANGED JsVars

\* (a variant: the result of Script::Compile is not looked at)
AfterStageCompileUnchecked(stage, o) ==
    CASE o = "throw" -> "leave"
      [] stage = "wrap" -> IF o = "ok" THEN "compile" ELSE "leave"
      [] stage = "compile" -> "run"
      [] OTHER -> "leave"

\* where run_js goes after a stage: if (!maybe.ToLocal(&x)) return false;
AfterStage(stage, o) ==
    CASE o # "ok" -> "leave"
      [] stage = "wrap" -> "compile"
      [] stage = "compile" -> "run"
      [] OTHER -> "leave"

\* the value run_js is about to return after a stage, if it returns
StageReturns(stage, o) == stage = "run" /\ o = "ok"

\* one stage: String::NewFromUtf8, Script::Compile, Script::Run
JsStage(stage) ==
    /\ JsAt(stage)
    /\ \E o \in JsOutcomes :
        js' = [js EXCEPT !.pc = AfterStage(stage, o),
                         !.trace = Append(@, << stage, o >>),
                         !.thrown = (o = "throw"),
                         !.ret = StageReturns(stage, o)]
    /\ UNCHANGED JsVars

JsWrap == JsStage("wrap")
JsCompile == JsStage("compile")
JsRun == JsStage("run")

\* (a variant: catch (...) { return true; })
CatchReturnsTrue == TRUE

\* catch (...) { return false; }
CatchReturns == FALSE

\* the scopes are destroyed (return or unwinding), innermost first, and
\* sekka_backend_run_js returns
Unwound(scopes) == SubSeq(scopes, 1, Len(scopes) - 3)

JsLeave ==
    /\ JsAt("leave")
    /\ LET r == IF js.thrown THEN CatchReturns ELSE js.ret
       IN  js' = [js EXCEPT !.pc = "idle",
                            !.scopes = Unwound(@),
                            !.ret = r,
                            !.done = Append(@, [trace |-> js.trace, result |-> r])]
    /\ UNCHANGED JsVars

JsNext == JsCall \/ JsEnter \/ JsWrap \/ JsCompile \/ JsRun \/ JsLeave

\* no run_command call takes place; the backend is used
InitJs ==
    /\ sigchld = "SIG_DFL"
    /\ faults = {}
    /\ active = {}
    /\ fds = CallerTable({0, 1, 2}, {})
    /\ req = [c \in Calls |-> IdleReq]
    /\ InitCommon

SpecJs == InitJs /\ [][JsNext]_vars


\* the stages of run_js in the order of the source
StageOrder == << "wrap", "compile", "run" >>

AllThreeOk == << << "wrap", "ok" >>, << "compile", "ok" >>, << "run", "ok" >> >>

(***************************************************************************)
(* C12.  sekka_backend_run_js returns true exactly when the three stages   *)
(* (wrap as UTF-8 string, compile, evaluate) succeeded in this order, and  *)
(* false when one of them failed or threw; no stage is attempted after one *)
(* that failed; and after any result, false included, the handle is as     *)
(* before the call (no V8 scope left entered), so that the same holds of   *)
(* every later call on it.                                                 *)
(***************************************************************************)
C12_RunJsResult ==
    /\ \A k \in DOMAIN js.done :
        LET t == js.done[k].trace
        IN  /\ js.done[k].result = (t = AllThreeOk)
            /\ Len(t) \in 1 .. 3
            /\ \A i \in DOMAIN t : t[i][1] = StageOrder[i]
            /\ \A i \in DOMAIN t : i < Len(t) => t[i][2] = "ok"
    /\ JsAt("idle") => js.scopes = << >>
    /\ \A i \in DOMAIN js.trace : i < Len(js.trace) => js.trace[i][2] = "ok"

\* a call returned false because compiling failed, and the next call on the
\* same handle returned true
C12_Witness ==
    /\ JsAt("idle")
    /\ Len(js.done) >= 2
    /\ js.done[1].result = FALSE
    /\ js.done[1].trace = << << "wrap", "ok" >>, << "compile", "empty" >> >>
    /\ js.done[2].result = TRUE


(***************************************************************************)
(* C13.  After clone3, each process closes the pipe end it does not use    *)
(* before it does any I/O on the pipe: the child closes the read end       *)
(* before any write of send_error, the parent closes the write end before  *)
(* its read.  From then on the child holds no read end and the parent no   *)
(* write end of the pipe; the child holds the write end while it sets up   *)
(* the namespace, the parent the read end when it reads.                   *)
(***************************************************************************)
\* position i of log comes after a close of the pipe end `kind`
AfterCloseOf(log, i, kind) ==
    \E j \in At(log, "close") : j < i /\ log[j].k = kind

C13_UnusedEndClosedFirst ==
    \A c \in active :
        /\ \A i \in At(clog[c], "write_errno") \cup At(clog[c], "write_source") :
              AfterCloseOf(clog[c], i, "pipe_r")
        /\ \A i \in At(plog[c], "read") : AfterCloseOf(plog[c], i, "pipe_w")
        /\ (proc[c] = "alive" /\ cpc[c] # "c_close_r") => ~HeldBy(cfds[c], "pipe_r", c)
        /\ (Cloned(c) /\ pc[c] # "close_w") => ~HeldBy(fds, "pipe_w", c)
        /\ (proc[c] = "alive" /\ cpc[c] \in {"c_wf1", "c_wf2", "c_wf3"})
              => HeldBy(cfds[c], "pipe_w", c)
        /\ pc[c] = "read" => HeldBy(fds, "pipe_r", c)

\* the child has written an error and the parent has read it
C13_Witness ==
    \E c \in active :
        /\ Did(clog[c], "write_source", "pipe")
        /\ \E i \in At(plog[c], "read") : plog[c][i].n > 0


(***************************************************************************)
(* C14.  In the parent, after a successful clone3, the write end is closed *)
(* before the read is issued, and the read end is closed only once the     *)
(* pipe has been read to EOF: when the parent closes the read end, no      *)
(* unread byte is in the pipe and none can still arrive.  The claim as     *)
(* made, for every path.                                                   *)
(***************************************************************************)
\* the parent is about to close the read end of its pipe: by
\* pipefd0_guard.run_now(), or by the destructor of pipefd0_guard
ClosingReadEnd(c) ==
    \/ pc[c] = "close_r"
    \/ pc[c] = "g_fds" /\ guard[c].g0 /\ Cloned(c)

\* the pipe of call c is at EOF: nothing queued, no write end left
AtEof(c) == pipebuf[c] = << >> /\ ~Writers(c)

C14_ReadEndClosedAtEof ==
    \A c \in active :
        /\ \A i \in At(plog[c], "read") : AfterCloseOf(plog[c], i, "pipe_w")
        /\ ClosingReadEnd(c) => AtEof(c)

(***************************************************************************)
(* C14, amended.  The write end is closed before the read is issued.  The  *)
(* read end is closed either by run_now after the read returned 0, which   *)
(* for errlen > 0 is EOF, or by its guard at a return, after the child has *)
(* been killed and reaped, when nothing can arrive any more; unread bytes  *)
(* may then remain in the pipe.                                            *)
(***************************************************************************)
C14_ReadEndClosedAfterReadOrReap ==
    \A c \in active :
        /\ \A i \in At(plog[c], "read") : AfterCloseOf(plog[c], i, "pipe_w")
        /\ pc[c] = "close_r" =>
              /\ nread[c] = 0
              /\ req[c].errlen > 0 => AtEof(c)
        /\ (pc[c] = "g_fds" /\ guard[c].g0 /\ Cloned(c)) =>
              /\ proc[c] = "reaped"
              /\ ~Writers(c)
              /\ status[c] \in {"failure_read", "failure_pre_execve"}

\* the guard is about to close the read end with bytes of the error unread
C14_Witness ==
    \E c \in active :
        /\ pc[c] = "g_fds" /\ guard[c].g0
        /\ status[c] = "failure_pre_execve"
        /\ pipebuf[c] # << >>


(***************************************************************************)
(* C15.  The child performs its steps in the order of the source: close    *)
(* the read end, write_file to setgroups, uid_map, gid_map (the 1st, 2nd,  *)
(* 3rd), close(0), dup2(log_file, 1), dup2(log_file, 2), execve.  It stops *)
(* at the first checked step that fails (open, write, dup2, execve): what  *)
(* follows is the two writes of send_error and _exit(1), nothing else; so  *)
(* execve is attempted only after every step before it succeeded.          *)
(***************************************************************************)
\* the i-th step of the child branch, as an operation and its number
ChildOrder(c) ==
    << << "close", pipefd[c][1] >>, << "write_file", 1 >>, << "write_file", 2 >>,
       << "write_file", 3 >>, << "close", 0 >>, << "dup2", 1 >>, << "dup2", 2 >>,
       << "execve", 0 >> >>

\* what send_error does, in order
SendErrorOrder == << "write_errno", "write_source", "_exit" >>

\* a checked step that failed
StepFailed(ev) == ev.op \in {"write_file", "dup2", "execve"} /\ ev.k # "ok"

\* the position of the first failed step of log t, Len(t) + 1 if there is none
FirstFailure(t) ==
    LET F == {i \in DOMAIN t : StepFailed(t[i])}
    IN  IF F = {} THEN Len(t) + 1 ELSE Lowest(F)

C15_ChildStepsInOrder ==
    \A c \in active :
        LET t == clog[c]
            f == FirstFailure(t)
        IN  \A i \in DOMAIN t :
                /\ (i <= f /\ i <= 8) =>
                      /\ t[i].op = ChildOrder(c)[i][1]
                      /\ t[i].n = ChildOrder(c)[i][2]
                /\ i > f =>
                      /\ i - f <= 3
                      /\ t[i].op = SendErrorOrder[i - f]
                /\ (i > 8 /\ i <= f) => (i = 9 /\ t[i].op = "exit")
                /\ (t[i].op \in {"close", "write_file", "dup2", "execve"}) => i <= f

\* dup2 failed in the child, which then sent the error and called _exit(1)
C15_Witness ==
    \E c \in active :
        /\ Did(clog[c], "dup2", "fail")
        /\ At(clog[c], "_exit") # {}
        /\ At(clog[c], "execve") = {}


(***************************************************************************)
(* C16.  When the child calls execve, its fd 0 is closed and its fds 1 and *)
(* 2 both refer to the file the caller's log_file refers to, whatever      *)
(* log_file is (0, 1, 2 or another descriptor) and whatever numbers the    *)
(* pipe got.  Where that cannot be set up (log_file is 0, which close(0)   *)
(* closes), a dup2 fails, the child enters send_error("dup2") and never    *)
(* calls execve.                                                           *)
(***************************************************************************)
\* two descriptors refer to the same open file
SameFile(a, b) == a.k # "closed" /\ a.k = b.k /\ a.c = b.c

\* the child is about to call execve, or the program it started runs
AtExecve(c) == proc[c] = "alive" /\ cpc[c] \in {"c_execve", "running"}

C16_StdioAtExecve ==
    \A c \in active :
        /\ AtExecve(c) =>
              /\ ~IsOpenIn(cfds[c], 0)
              /\ SameFile(cfds[c][1], fds[req[c].log_file])
              /\ SameFile(cfds[c][2], fds[req[c].log_file])
        /\ Did(clog[c], "dup2", "fail") =>
              /\ cerr[c] = [errnum |-> EBADF, source |-> "dup2"]
              /\ At(clog[c], "execve") = {}
        /\ req[c].log_file = 0 => At(clog[c], "execve") = {}

\* the child reaches execve with log_file = 2 and the pipe on fds 0 and 1:
\* dup2(log_file, 1) has replaced the write end of the pipe
C16_Witness ==
    \E c \in active :
        /\ AtExecve(c)
        /\ req[c].log_file = 2
        /\ pipefd[c] = << 0, 1 >>


(***************************************************************************)
(* C17.  The cleanup of child_guard (kill with SIGKILL, then waitpid) runs *)
(* at a return exactly when the normal waitpid has not returned the        *)
(* child's pid.  After the normal waitpid reaped the child the parent      *)
(* sends no signal to the pid and does not wait for it again; on every     *)
(* other return after a successful clone3 the cleanup runs, once, kill     *)
(* before waitpid, both before the pidfd is closed.                        *)
(***************************************************************************)
\* the normal waitpid returned the child's pid
NormalWaitReaped(c) == Did(plog[c], "waitpid", "reaped")

C17_CleanupExactlyWhenNotReaped ==
    \A c \in active :
        LET t == plog[c]
            kills == At(t, "kill")
            waits == At(t, "guard_waitpid")
        IN  /\ NormalWaitReaped(c) => (kills = {} /\ waits = {})
            /\ \A i \in kills \cup waits :
                  ~\E j \in DOMAIN t : j < i /\ t[j].op \in {"waitpid", "guard_waitpid"}
                                             /\ t[j].k = "reaped"
            /\ \A i \in waits : \E j \in kills : j = i - 1
            /\ \A i \in kills \cup waits :
                  ~\E j \in AtK(t, "close", "pidfd") : j < i
            /\ (Returned(c) /\ Cloned(c) /\ ~NormalWaitReaped(c)) =>
                  (Cardinality(kills) = 1 /\ Cardinality(waits) = 1)
            /\ (Returned(c) /\ ~Cloned(c)) => (kills = {} /\ waits = {})

\* the normal waitpid reaped the child, the guard was dismissed and the call
\* has returned without a kill
C17_Witness ==
    \E c \in active :
        /\ Returned(c)
        /\ NormalWaitReaped(c)
        /\ status[c] = "child_terminated"
        /\ At(plog[c], "kill") = {}


(***************************************************************************)
(* C18.  The child never leaves the branch pid == 0.  It is at one of the  *)
(* statements of the branch, runs the program it started, or has ended;    *)
(* it makes no system call of the parent's code (read, ppoll, waitpid,     *)
(* kill); of the guards it runs only pipefd0_guard, by run_now: its copies *)
(* of pipefd1_guard and pidfd_guard stay armed and never act.  A child     *)
(* that ended by itself without having started the program ended in        *)
(* _exit(1).                                                               *)
(***************************************************************************)
ChildBranch ==
    {"c_close_r", "c_wf1", "c_wf2", "c_wf3", "c_close0", "c_dup2_1", "c_dup2_2",
     "c_execve", "c_err_w1", "c_err_w2", "c_exit"}

ChildOps ==
    {"close", "write_file", "dup2", "execve", "write_errno", "write_source", "_exit"}

C18_ChildStaysInBranch ==
    \A c \in active :
        /\ cpc[c] \in ChildBranch \cup {"none", "running", "dead"}
        /\ \A i \in DOMAIN clog[c] :
              \/ clog[c][i].op \in ChildOps
              \/ clog[c][i].op = "exit" /\ \E j \in AtK(clog[c], "execve", "ok") : j < i
        /\ Cardinality(At(clog[c], "close")) <= 2
        /\ cpc[c] \in ChildBranch => (cguard[c].g1 /\ cguard[c].gp)
        /\ (cpc[c] = "dead" /\ ~Execed(c) /\ WIFEXITED(term[c])) =>
              /\ clog[c] # << >>
              /\ clog[c][Len(clog[c])].op = "_exit"
              /\ WEXITSTATUS(term[c]) = 1

\* a child whose execve failed has sent its error and ended in _exit(1)
C18_Witness ==
    \E c \in active :
        /\ cpc[c] = "dead"
        /\ Did(clog[c], "execve", "fail")
        /\ At(clog[c], "_exit") # {}


(***************************************************************************)
(* C19.  errbuf is written only by the parent's one read on the pipe.  It  *)
(* is as the caller left it unless that read returned a count n > 0; then  *)
(* the call returns failure_pre_execve, the first n <= errlen bytes are    *)
(* what was read and every byte after them is as the caller left it.       *)
(***************************************************************************)
\* the parent's read returned a positive count
ReadSome(c) == \E i \in At(plog[c], "read") : plog[c][i].n > 0

C19_ErrbufFrame ==
    \A c \in active :
        /\ Len(errbuf[c]) = req[c].errlen
        /\ Cardinality(At(plog[c], "read")) <= 1
        /\ ~ReadSome(c) => errbuf[c] = FreshBuffer(req[c].errlen)
        /\ ReadSome(c) =>
              /\ nread[c] \in 1 .. req[c].errlen
              /\ Drop(errbuf[c], nread[c]) = Drop(FreshBuffer(req[c].errlen), nread[c])
        /\ (Returned(c) /\ status[c] # "failure_pre_execve") =>
              errbuf[c] = FreshBuffer(req[c].errlen)
        /\ (Returned(c) /\ status[c] = "failure_pre_execve") => ReadSome(c)

\* a call returned failure_pre_execve having filled a part of its buffer
C19_Witness ==
    \E c \in active :
        /\ Returned(c)
        /\ status[c] = "failure_pre_execve"
        /\ nread[c] < req[c].errlen
        /\ errbuf[c] # FreshBuffer(req[c].errlen)


(***************************************************************************)
(* scope_exit on its own: any sequence of skip() and run_now() on one      *)
(* guard, ended by the guard going out of scope.                           *)
(***************************************************************************)
MaxOps == 6

SgVars == << sigchld, faults, active, req, js, parentVars, childVars >>

\* one member call: whether the action runs in it, and f afterwards
SgDoes(op, fires, after) ==
    /\ sg.live
    /\ sg' = [sg EXCEPT !.engaged = after,
                        !.ops = Append(@, [op |-> op, fired |-> fires]),
                        !.runs = IF fires THEN @ + 1 ELSE @,
                        !.live = (op # "exit")]
    /\ UNCHANGED SgVars

\* void skip() { f.reset(); }
SgSkip ==
    /\ Len(sg.ops) < MaxOps
    /\ SgDoes("skip", FALSE, AfterSkip(sg.engaged))

\* void run_now() { this->~scope_exit(); f.reset(); }
SgRunNow ==
    /\ Len(sg.ops) < MaxOps
    /\ SgDoes("run_now", GuardFires(sg.engaged), AfterRunNow(sg.engaged))

\* the guard goes out of scope: ~scope_exit() { if (f) (*f)(); }
SgScopeExit == SgDoes("exit", GuardFires(sg.engaged), sg.engaged)

SgNext == SgSkip \/ SgRunNow \/ SgScopeExit

InitGuard == InitJs

SpecGuard == InitGuard /\ [][SgNext]_vars

(***************************************************************************)
(* C20.  Over any sequence of skip(), run_now() and the scope exit, a      *)
(* guard runs its action at most once: in the first run_now() if no skip() *)
(* came before it, at the scope exit if neither skip() nor run_now() was   *)
(* called, and never after a skip() or an earlier run_now().               *)
(***************************************************************************)
C20_ActionAtMostOnce ==
    /\ sg.runs <= 1
    /\ sg.runs = Cardinality({i \in DOMAIN sg.ops : sg.ops[i].fired})
    /\ \A i \in DOMAIN sg.ops :
          sg.ops[i].fired <=> (i = 1 /\ sg.ops[i].op \in {"run_now", "exit"})
    /\ (~sg.live /\ sg.ops[1].op # "skip") => sg.runs = 1

\* run_now(), then run_now() again, then the scope exit: the action ran once
C20_Witness ==
    /\ ~sg.live
    /\ Len(sg.ops) = 3
    /\ sg.ops[1].op = "run_now" /\ sg.ops[2].op = "run_now"
    /\ sg.runs = 1
====
